---- MODULE Spec2Model ----
(***************************************************************************)
(* Reconciliation pass of the BLS file sync (sync_files and its helpers    *)
(* get_remote_files, get_s3_files, file_needs_update, upload_to_s3), as    *)
(* written in Task_1_sync_bls_files.py and repeated verbatim in            *)
(* lambda_functions/sync_and_fetch.py, and the Lambda handler of that file, *)
(* which runs a pass and then fetch_api_data on the same bucket.            *)
(*                                                                         *)
(* Every network or store call is one step; its outcome (status code,      *)
(* exception, success) is chosen by the environment.                       *)
(***************************************************************************)
EXTENDS Integers, Sequences, FiniteSets, TLC

\* ------------------------------------------------------------------ bounds
\* Longest anchor list of the directory page.
MaxLinks == 2
\* Keys in one page of the store's listing (1000 at S3).  list_objects_v2 is
\* called once, without a continuation token, so get_s3_files sees one page.
PageSize == 2
\* Invocations of the Lambda handler in one behaviour.
MaxInvocations == 2

\* ------------------------------------------------------- program constants
\* get_remote_files(max_retries=3, retry_delay=5)
ListMaxRetries == 3
ListRetryDelay == 5
\* upload_to_s3(..., max_retries=3), time.sleep(5 * (attempt + 1))
UploadMaxRetries == 3
UploadDelayUnit == 5

\* -------------------------------------------------------------- the world
\* File names of the upstream directory (pr.class, pr.data.0.Current, ...), in
\* lexicographic order.
FileOrder == <<"a", "b", "c">>
Names == {FileOrder[i] : i \in 1..Len(FileOrder)}

\* f"population_data_{datetime.now().strftime('%Y%m%d_%H%M%S')}.json" at the
\* n-th invocation of the handler: a new key each time, later ones sorting
\* after earlier ones.
PopStamps == <<"population_data_1.json", "population_data_2.json",
               "population_data_3.json", "population_data_4.json">>
PopKey(n) == PopStamps[n]
PopKeys == {PopKey(n) : n \in 1..MaxInvocations}

\* Keys of the bucket in the lexicographic order in which the store lists
\* them: "population_data_..." sorts before the "pr...." file names.
Keys == PopKeys \cup Names
KeyOrder == SubSeq(PopStamps, 1, MaxInvocations) \o FileOrder
Rank(k) == CHOOSE i \in 1..Len(KeyOrder) : KeyOrder[i] = k

\* hrefs of the directory page: the files and the parent-directory link.
ParentHref == "../"
Hrefs == Names \cup {ParentHref}
EndsWithSlash(h) == h = ParentHref

\* Payloads are opaque byte strings; <<>> is the zero-byte file.
Contents == {<<>>, <<1>>}
NoObject == [absent |-> TRUE]

\* A bytes-or-None value of the program.
NoBytes == [none |-> TRUE]
Bytes(b) == [none |-> FALSE, bytes |-> b]

\* HTTP outcomes of session.get: a status code, or 0 for a raised
\* requests.exceptions.RequestException.
Raised == 0
ListOutcomes == {200, 403, 500, Raised}
GetOutcomes == {200, 404, Raised}

Quote == "\""

\* hashlib.md5(...).hexdigest(): a quote-free digest, distinct for distinct
\* payloads of Contents.
Md5(bytes) == IF Len(bytes) = 0 THEN <<"d", "4">> ELSE <<"c", "4">>

\* The ETag the store assigns on a single-part put: the quoted MD5.
ETagOf(bytes) == <<Quote>> \o Md5(bytes) \o <<Quote>>

RECURSIVE LStrip(_)
LStrip(s) == IF Len(s) > 0 /\ Head(s) = Quote THEN LStrip(Tail(s)) ELSE s

RECURSIVE RStrip(_)
RStrip(s) ==
    IF Len(s) > 0 /\ s[Len(s)] = Quote THEN RStrip(SubSeq(s, 1, Len(s) - 1)) ELSE s

\* str.strip('"')
StripQuotes(s) == RStrip(LStrip(s))

\* bool(x) of a bytes-or-None value.
Truthy(x) == ~x.none /\ Len(x.bytes) > 0

Range(s) == {s[i] : i \in 1..Len(s)}

SeqsUpTo(S, n) == UNION {[1..m -> S] : m \in 0..n}

\* The href filter of get_remote_files.
IsFileHref(h) == h # "" /\ h # ParentHref /\ ~EndsWithSlash(h)

RECURSIVE ParseLinks(_)
ParseLinks(page) ==
    IF page = <<>> THEN <<>>
    ELSE IF IsFileHref(Head(page)) THEN <<Head(page)>> \o ParseLinks(Tail(page))
    ELSE ParseLinks(Tail(page))

StoreKeys(st) == {k \in Keys : st[k] # NoObject}

\* Response['Contents'] of the single list_objects_v2 call.
FirstPage(st) ==
    {k \in StoreKeys(st) :
        Cardinality({j \in StoreKeys(st) : Rank(j) < Rank(k)}) < PageSize}

Stored(bytes) == [absent |-> FALSE, body |-> bytes, etag |-> ETagOf(bytes)]

Objects == {NoObject} \cup {Stored(b) : b \in Contents}

\* The upstream: a directory page and the payload of each file it links.  A
\* name the page does not link has no payload to speak of (fixed to <<1>>).
Worlds ==
    {w \in [page : SeqsUpTo(Hrefs, MaxLinks), content : [Names -> Contents]] :
        \A k \in Names \ Range(w.page) : w.content[k] = <<1>>}

Front(s) == SubSeq(s, 1, Len(s) - 1)

\* What the upstream may have done to world w between two passes: nothing,
\* rewritten one linked file, or withdrawn the last link of the page.
Rewritten(w) ==
    {[w EXCEPT !.content[k] = c] : k \in Range(w.page) \cap Names, c \in Contents}
Withdrawn(w) ==
    IF Len(w.page) = 0 THEN {}
    ELSE {[page |-> Front(w.page),
           content |-> [k \in Names |->
                           IF k \in Range(Front(w.page)) THEN w.content[k] ELSE <<1>>]]}
Successors(w) == {w} \cup Rewritten(w) \cup Withdrawn(w)

Zero == [k \in Keys |-> 0]
NoKey == "-"
FreshCur ==
    [key |-> NoKey, kind |-> "none", res |-> "none", dl |-> "none",
     refetch |-> "none", puts |-> 0, fetches |-> 0, done |-> FALSE]
EmptyDict == [k \in {} |-> <<>>]

VARIABLES
    remotePage,      \* anchors of the upstream directory page
    remoteContent,   \* upstream payload of each file name
    store,           \* the bucket: key -> object
    pc,              \* position of the pass
    attempt,         \* loop variable of get_remote_files
    retry_delay,     \* its retry_delay
    remote_files,    \* sync_files: remote_files
    s3_files,        \* sync_files: s3_files, a dict key -> stripped ETag
    idx,             \* position of `for file_name in remote_files`
    file_content,    \* bytes handed to upload_to_s3
    upAttempt,       \* loop variable of upload_to_s3
    files_to_delete, \* keys of files_to_delete not yet visited
    \* ---- observation of the run (history)
    listResult,      \* "none" | "ok" | "failed": how get_remote_files ended
    invResult,       \* "none" | "ok" | "failed": how list_objects_v2 ended
    storeAtStart,    \* the bucket when the pass began
    listLog,         \* requests and sleeps of get_remote_files, kept until
                     \* sync_files has tested its result and gone on
    upLog,           \* put attempts and sleeps of upload_to_s3, kept until the
                     \* next loop iteration begins
    upResult,        \* "none" | "true" | "false": what upload_to_s3 returned
    putKeys,         \* keys put_object was called for in this pass
    nDel,            \* delete_object calls per key in this pass
    handled,         \* per key: loop iterations plus delete visits
    cur,             \* the loop iteration in progress or just left: its key,
                     \* branch, resolved action, download outcomes and counts
    anyFault,        \* some call failed in this pass
    prevClean,       \* the previous pass was fault free, upstream unchanged since
    \* ---- the Lambda handler
    hpc,             \* "idle" | "sync" | "upload_json": position of handler
    now,             \* invocations so far (the clock of the key's timestamp)
    json_file,       \* handler: json_file of the last return (NoKey for None)
    statusCode,      \* statusCode of the last return, 0 before the first
    apiResult,       \* how fetch_api_data went in the last invocation
    syncsOk          \* in every invocation so far the listing and the inventory
                     \* read succeeded and no delete failed

vars == <<remotePage, remoteContent, store, pc, attempt, retry_delay,
          remote_files, s3_files, idx, file_content, upAttempt, files_to_delete,
          listResult, invResult, storeAtStart, listLog, upLog, upResult,
          putKeys, nDel, handled, cur, anyFault, prevClean,
          hpc, now, json_file, statusCode, apiResult, syncsOk>>

world == <<remotePage, remoteContent>>
World == [page |-> remotePage, content |-> remoteContent]
listerVars == <<attempt, retry_delay>>
loopVars == <<idx, file_content, upAttempt>>
lambdaVars == <<hpc, now, json_file, statusCode, apiResult, syncsOk>>
obsPass == <<storeAtStart, prevClean, lambdaVars>>
\* Everything of a pass but the bucket.
passVars == <<remotePage, remoteContent, pc, attempt, retry_delay, remote_files,
              s3_files, idx, file_content, upAttempt, files_to_delete, listResult,
              invResult, storeAtStart, listLog, upLog, upResult, putKeys, nDel,
              handled, cur, anyFault, prevClean>>

Ev(e, v) == [ev |-> e, v |-> v]

\* The state before the first pass.
Init ==
    /\ \E w \in Worlds : remotePage = w.page /\ remoteContent = w.content
    /\ \E files \in [Names -> Objects] :
          store = [k \in Keys |-> IF k \in Names THEN files[k] ELSE NoObject]
    /\ pc = "idle"
    /\ attempt = 0
    /\ retry_delay = ListRetryDelay
    /\ remote_files = <<>>
    /\ s3_files = EmptyDict
    /\ idx = 1
    /\ file_content = NoBytes
    /\ upAttempt = 0
    /\ files_to_delete = {}
    /\ listResult = "none"
    /\ invResult = "none"
    /\ storeAtStart = store
    /\ listLog = <<>>
    /\ upLog = <<>>
    /\ upResult = "none"
    /\ putKeys = {}
    /\ nDel = Zero
    /\ handled = Zero
    /\ cur = FreshCur
    /\ anyFault = FALSE
    /\ prevClean = FALSE
    /\ hpc = "idle"
    /\ now = 0
    /\ json_file = NoKey
    /\ statusCode = 0
    /\ apiResult = "none"
    /\ syncsOk = TRUE

\* ------------------------------------------------------------ pass control
\* sync_files is entered: every local of the pass is fresh.  Since the last
\* pass the upstream kept its files (w is the world as it was) or published,
\* rewrote or withdrew some.
StartPass(w) ==
    /\ pc = "idle"
    /\ remotePage' = w.page
    /\ remoteContent' = w.content
    /\ prevClean' = (prevClean /\ w.page = remotePage /\ w.content = remoteContent)
    /\ pc' = "list"
    /\ attempt' = 0
    /\ retry_delay' = ListRetryDelay
    /\ remote_files' = <<>>
    /\ s3_files' = EmptyDict
    /\ idx' = 1
    /\ file_content' = NoBytes
    /\ upAttempt' = 0
    /\ files_to_delete' = {}
    /\ listResult' = "none"
    /\ invResult' = "none"
    /\ storeAtStart' = store
    /\ listLog' = <<>>
    /\ upLog' = <<>>
    /\ upResult' = "none"
    /\ putKeys' = {}
    /\ nDel' = Zero
    /\ handled' = Zero
    /\ cur' = FreshCur
    /\ anyFault' = FALSE
    /\ UNCHANGED store

\* sync_files returns.
Return(fault) ==
    /\ pc' = "idle"
    /\ prevClean' = ~fault

\* -------------------------------------------------------- get_remote_files
\* get_remote_files returns `files`; its locals are gone.
ListerReturns(files, result) ==
    /\ remote_files' = files
    /\ listResult' = result
    /\ pc' = "listed"
    /\ attempt' = 0
    /\ retry_delay' = ListRetryDelay

\* The branch an answer of session.get(data_url) takes in get_remote_files:
\* "parse" (200), "denied" (403), "give_up" (any other status: return []),
\* "fault" (the except clause).
ListBranchFaultWarmsUp(status) ==
    IF status = 200 THEN "parse"
    ELSE IF status = 403 \/ status = Raised THEN "denied"
    ELSE "give_up"

ListBranch(status) ==
    IF status = Raised THEN "fault"
    ELSE IF status = 200 THEN "parse"
    ELSE IF status = 403 THEN "denied"
    ELSE "give_up"

\* The value `for attempt in range(max_retries)` gives attempt next.
SameAttempt(n) == n

NextAttempt(n) == n + 1

\* One iteration of `for attempt in range(max_retries)` up to the end of the
\* iteration or to the warm-up request: session.get(data_url) answers
\* `status`, or raises (status = Raised).
ListRequest(status) ==
    /\ pc = "list"
    /\ attempt < ListMaxRetries
    /\ anyFault' = (anyFault \/ status # 200)
    /\ IF ListBranch(status) = "parse" THEN
            /\ listLog' = Append(listLog, Ev("list", status))
            /\ ListerReturns(ParseLinks(remotePage), "ok")
       ELSE IF ListBranch(status) = "denied" THEN
            IF attempt < ListMaxRetries - 1 THEN
                /\ listLog' = listLog \o <<Ev("list", status), Ev("sleep", retry_delay)>>
                /\ pc' = "warmup"
                /\ UNCHANGED <<remote_files, listResult, listerVars>>
            ELSE
                /\ listLog' = Append(listLog, Ev("list", status))
                /\ ListerReturns(<<>>, "failed")
       ELSE IF ListBranch(status) = "give_up" THEN
            /\ listLog' = Append(listLog, Ev("list", status))
            /\ ListerReturns(<<>>, "failed")
       ELSE IF attempt < ListMaxRetries - 1 THEN
            /\ listLog' = listLog \o <<Ev("list", status), Ev("sleep", retry_delay)>>
            /\ attempt' = NextAttempt(attempt)
            /\ UNCHANGED <<pc, remote_files, listResult, retry_delay>>
       ELSE
            /\ listLog' = Append(listLog, Ev("list", status))
            /\ ListerReturns(<<>>, "failed")
    /\ UNCHANGED <<world, store, s3_files, loopVars, files_to_delete, invResult,
                   upLog, upResult, putKeys, nDel, handled, cur, obsPass>>

\* session.get('https://www.bls.gov/') after the sleep of a 403: it returns and
\* the delay doubles, or it raises inside the try block and the except clause
\* sleeps once more with the delay left as it was.
WarmUp(ok) ==
    /\ pc = "warmup"
    /\ IF ok THEN
            /\ listLog' = Append(listLog, Ev("root", 1))
            /\ retry_delay' = retry_delay * 2
            /\ UNCHANGED anyFault
       ELSE
            /\ listLog' = listLog \o <<Ev("root", 0), Ev("sleep", retry_delay)>>
            /\ anyFault' = TRUE
            /\ UNCHANGED retry_delay
    /\ attempt' = NextAttempt(attempt)
    /\ pc' = "list"
    /\ UNCHANGED <<world, store, remote_files, s3_files, loopVars, files_to_delete,
                   listResult, invResult, upLog, upResult, putKeys, nDel, handled,
                   cur, obsPass>>

\* An exception that is no requests RequestException (the only class the
\* except clause of get_remote_files names) is raised by a request or by the
\* parse: it leaves get_remote_files and sync_files, which has no try block
\* around the call.
ListEscapes ==
    /\ pc \in {"list", "warmup"}
    /\ listResult' = "raised"
    /\ listLog' = <<>>
    /\ attempt' = 0
    /\ retry_delay' = ListRetryDelay
    /\ anyFault' = TRUE
    /\ Return(TRUE)
    /\ UNCHANGED <<world, store, remote_files, s3_files, loopVars, files_to_delete,
                   invResult, storeAtStart, upLog, upResult, putKeys, nDel, handled,
                   cur, lambdaVars>>

\* `not remote_files`
NeverEmpty(files) == FALSE

NotFiles(files) == Len(files) = 0

\* sync_files: `if not remote_files: return`.
CheckRemote ==
    /\ pc = "listed"
    /\ IF NotFiles(remote_files)
       THEN Return(anyFault) /\ UNCHANGED listLog
       ELSE pc' = "inventory" /\ listLog' = <<>> /\ UNCHANGED prevClean
    /\ UNCHANGED <<world, store, listerVars, remote_files, s3_files, loopVars,
                   files_to_delete, listResult, invResult, storeAtStart,
                   upLog, upResult, putKeys, nDel, handled, cur, anyFault,
                   lambdaVars>>

\* ------------------------------------------------------------ get_s3_files
\* The dict get_s3_files builds from one answer of list_objects_v2.
InventoryOf(st) == [k \in FirstPage(st) |-> StripQuotes(st[k].etag)]

\* list_objects_v2 answers, or raises and get_s3_files returns {}.
GetS3Files(ok) ==
    /\ pc = "inventory"
    /\ s3_files' = IF ok THEN InventoryOf(store) ELSE EmptyDict
    /\ invResult' = IF ok THEN "ok" ELSE "failed"
    /\ anyFault' = (anyFault \/ ~ok)
    /\ pc' = "loop"
    /\ idx' = 1
    /\ UNCHANGED <<world, store, listerVars, remote_files, file_content, upAttempt,
                   files_to_delete, listResult, listLog, upLog, upResult, putKeys,
                   nDel, handled, cur, obsPass>>

\* ------------------------------------------------------- file_needs_update
\* file_needs_update(file_name, file_url, s3_etag) when the download answers
\* `status` with payload `bytes`: (needs_update, file_content).
file_needs_update_always(status, bytes, s3_etag) ==
    [needs_update |-> TRUE,
     file_content |-> IF status = 200 THEN Bytes(bytes) ELSE NoBytes]

file_needs_update_stale(status, bytes, s3_etag) ==
    IF status = 200 THEN
        [needs_update |-> Md5(bytes) # StripQuotes(s3_etag),
         file_content |-> IF Md5(bytes) # StripQuotes(s3_etag) THEN Bytes(bytes) ELSE NoBytes]
    ELSE [needs_update |-> FALSE, file_content |-> NoBytes]

file_needs_update(status, bytes, s3_etag) ==
    IF status = 200 THEN
        LET remote_md5 == Md5(bytes)
            s3_md5 == StripQuotes(s3_etag)
            needs_update == remote_md5 # s3_md5
        IN  [needs_update |-> needs_update,
             file_content |-> IF needs_update THEN Bytes(bytes) ELSE NoBytes]
    ELSE [needs_update |-> TRUE, file_content |-> NoBytes]

\* ---------------------------------------------- sync_files: the remote loop
CurName == remote_files[idx]

\* The loop body is left for the next file name.
NextFile ==
    /\ idx' = idx + 1
    /\ pc' = "loop"
    /\ handled' = [handled EXCEPT ![CurName] = @ + 1]
    /\ file_content' = NoBytes
    /\ upAttempt' = 0

\* session.get(file_url) of the loop body answered another status than 200 or
\* raised: the failure is printed and the loop goes to the next file name.
RetryFailedDownload ==
    /\ pc' = "loop"
    /\ file_content' = NoBytes
    /\ upAttempt' = 0
    /\ UNCHANGED <<idx, handled>>

DownloadFailed == NextFile

\* A loop iteration begins with no upload_to_s3 call behind it.
NoUploadYet ==
    /\ upLog' = <<>>
    /\ upResult' = "none"

\* upload_to_s3(file_name, bytes) is entered.
EnterUpload(bytes) ==
    /\ file_content' = Bytes(bytes)
    /\ upAttempt' = 0
    /\ upLog' = <<>>
    /\ upResult' = "none"
    /\ pc' = "upload"
    /\ UNCHANGED <<idx, handled>>

\* `file_name not in s3_files`: session.get(file_url), then upload_to_s3 on 200.
DownloadNew(status) ==
    /\ pc = "loop"
    /\ idx <= Len(remote_files)
    /\ CurName \notin DOMAIN s3_files
    /\ anyFault' = (anyFault \/ status # 200)
    /\ IF status = 200 THEN
            /\ EnterUpload(remoteContent[CurName])
            /\ cur' = [FreshCur EXCEPT !.key = CurName, !.kind = "new", !.res = "create",
                                       !.dl = "ok", !.fetches = 1]
       ELSE
            /\ DownloadFailed
            /\ cur' = [FreshCur EXCEPT !.key = CurName, !.kind = "new", !.res = "create",
                                       !.dl = "failed", !.fetches = 1, !.done = TRUE]
            /\ NoUploadYet
    /\ UNCHANGED <<world, store, listerVars, remote_files, s3_files, files_to_delete,
                   listResult, invResult, listLog, putKeys, nDel, obsPass>>

\* `file_name in s3_files`: file_needs_update and the branch on its result.
CheckExisting(status) ==
    /\ pc = "loop"
    /\ idx <= Len(remote_files)
    /\ CurName \in DOMAIN s3_files
    /\ anyFault' = (anyFault \/ status # 200)
    /\ LET r == file_needs_update(status, remoteContent[CurName], s3_files[CurName])
           c == [FreshCur EXCEPT !.key = CurName, !.kind = "check",
                                 !.dl = IF status = 200 THEN "ok" ELSE "failed",
                                 !.fetches = 1]
       IN  IF r.needs_update THEN
                IF Truthy(r.file_content) THEN
                    /\ EnterUpload(r.file_content.bytes)
                    /\ cur' = [c EXCEPT !.res = "update"]
                ELSE
                    /\ pc' = "refetch"
                    /\ cur' = [c EXCEPT !.res = "update"]
                    /\ NoUploadYet
                    /\ UNCHANGED <<idx, handled, file_content, upAttempt>>
           ELSE
                /\ NextFile
                /\ NoUploadYet
                /\ cur' = [c EXCEPT !.res = "skip", !.done = TRUE]
    /\ UNCHANGED <<world, store, listerVars, remote_files, s3_files, files_to_delete,
                   listResult, invResult, listLog, putKeys, nDel, obsPass>>

\* "File content not available, download again": the second session.get.
Refetch(status) ==
    /\ pc = "refetch"
    /\ anyFault' = (anyFault \/ status # 200)
    /\ IF status = 200 THEN
            /\ EnterUpload(remoteContent[CurName])
            /\ cur' = [cur EXCEPT !.fetches = @ + 1, !.refetch = "ok"]
       ELSE
            /\ DownloadFailed
            /\ cur' = [cur EXCEPT !.fetches = @ + 1, !.refetch = "failed", !.done = TRUE]
            /\ UNCHANGED <<upLog, upResult>>
    /\ UNCHANGED <<world, store, listerVars, remote_files, s3_files, files_to_delete,
                   listResult, invResult, listLog, putKeys, nDel, obsPass>>

\* ------------------------------------------------------------ upload_to_s3
\* time.sleep(5 * (attempt + 1))
FlatUploadDelay(n) == UploadDelayUnit

UploadDelay(n) == UploadDelayUnit * (n + 1)

\* One iteration of `for attempt in range(max_retries)`: put_object succeeds
\* and upload_to_s3 returns True, or it raises and the loop sleeps or gives up.
PutObject(ok) ==
    /\ pc = "upload"
    /\ upAttempt < UploadMaxRetries
    /\ putKeys' = putKeys \cup {CurName}
    /\ anyFault' = (anyFault \/ ~ok)
    /\ IF ok THEN
            /\ store' = [store EXCEPT ![CurName] = Stored(file_content.bytes)]
            /\ upLog' = Append(upLog, Ev("put", 1))
            /\ upResult' = "true"
            /\ NextFile
            /\ cur' = [cur EXCEPT !.puts = @ + 1, !.done = TRUE]
       ELSE IF upAttempt < UploadMaxRetries - 1 THEN
            /\ upLog' = upLog \o <<Ev("put", 0), Ev("sleep", UploadDelay(upAttempt))>>
            /\ upAttempt' = upAttempt + 1
            /\ cur' = [cur EXCEPT !.puts = @ + 1]
            /\ UNCHANGED <<store, pc, idx, handled, upResult, file_content>>
       ELSE
            /\ upLog' = Append(upLog, Ev("put", 0))
            /\ upResult' = "false"
            /\ NextFile
            /\ cur' = [cur EXCEPT !.puts = @ + 1, !.done = TRUE]
            /\ UNCHANGED store
    /\ UNCHANGED <<world, listerVars, remote_files, s3_files,
                   files_to_delete, listResult, invResult, listLog, nDel, obsPass>>

\* ---------------------------------------------- sync_files: the delete loop
\* files_to_delete = s3_file_set - remote_file_set
FilesToDeleteWholeInventory(s3, remote) == DOMAIN s3

FilesToDeleteOfUpstreamOnly(s3, remote) == (DOMAIN s3 \cap Names) \ Range(remote)

FilesToDelete(s3, remote) == DOMAIN s3 \ Range(remote)

\* `for file_name in remote_files` has no name left.
LoopLeftAfterFirst == idx > 1

LoopExhausted == idx > Len(remote_files)

\* The remote loop is exhausted; files_to_delete is computed.
PlanDeletes ==
    /\ pc = "loop"
    /\ LoopExhausted
    /\ files_to_delete' = FilesToDelete(s3_files, remote_files)
    /\ pc' = "delete"
    /\ NoUploadYet
    /\ cur' = FreshCur
    /\ UNCHANGED <<world, store, listerVars, remote_files, s3_files, loopVars,
                   listResult, invResult, listLog, putKeys, nDel,
                   handled, anyFault, obsPass>>

\* The keys the delete loop still has to visit after delete_object(file_name)
\* returned (ok) or raised: the try/except is inside the loop body, so the
\* loop goes on either way.
DeleteLoopEndsOnError(file_name, ok) ==
    IF ok THEN files_to_delete \ {file_name} ELSE {}

RemainingDeletes(file_name, ok) == files_to_delete \ {file_name}

\* One iteration of `for file_name in files_to_delete`: delete_object succeeds,
\* or raises and the error is printed.
DeleteObject(file_name, ok) ==
    /\ pc = "delete"
    /\ file_name \in files_to_delete
    /\ files_to_delete' = RemainingDeletes(file_name, ok)
    /\ nDel' = [nDel EXCEPT ![file_name] = @ + 1]
    /\ handled' = [handled EXCEPT ![file_name] = @ + 1]
    /\ anyFault' = (anyFault \/ ~ok)
    /\ store' = IF ok THEN [store EXCEPT ![file_name] = NoObject] ELSE store
    /\ UNCHANGED <<world, pc, listerVars, remote_files, s3_files, loopVars,
                   listResult, invResult, listLog, upLog, upResult, putKeys, cur,
                   obsPass>>

\* "Sync process completed!"
Finish ==
    /\ pc = "delete"
    /\ files_to_delete = {}
    /\ Return(anyFault)
    /\ UNCHANGED <<world, store, listerVars, remote_files, s3_files, loopVars,
                   files_to_delete, listResult, invResult, storeAtStart, listLog,
                   upLog, upResult, putKeys, nDel, handled, cur, anyFault,
                   lambdaVars>>

\* `python Task_1_sync_bls_files.py`: a pass outside the handler.
RunPass(w) ==
    /\ hpc = "idle"
    /\ StartPass(w)
    /\ UNCHANGED lambdaVars

Next ==
    \/ \E w \in Successors(World) : RunPass(w)
    \/ \E status \in ListOutcomes : ListRequest(status)
    \/ \E ok \in BOOLEAN : WarmUp(ok)
    \/ ListEscapes
    \/ CheckRemote
    \/ \E ok \in BOOLEAN : GetS3Files(ok)
    \/ \E status \in GetOutcomes : DownloadNew(status)
    \/ \E status \in GetOutcomes : CheckExisting(status)
    \/ \E status \in GetOutcomes : Refetch(status)
    \/ \E ok \in BOOLEAN : PutObject(ok)
    \/ PlanDeletes
    \/ \E k \in Keys, ok \in BOOLEAN : DeleteObject(k, ok)
    \/ Finish

Spec == Init /\ [][Next]_vars

\* The same program where no call fails: every request answers 200 and every
\* store call succeeds.
NextQuiet ==
    \/ \E w \in Successors(World) : RunPass(w)
    \/ ListRequest(200)
    \/ CheckRemote
    \/ GetS3Files(TRUE)
    \/ DownloadNew(200)
    \/ CheckExisting(200)
    \/ Refetch(200)
    \/ PutObject(TRUE)
    \/ PlanDeletes
    \/ \E k \in Keys : DeleteObject(k, TRUE)
    \/ Finish

SpecQuiet == Init /\ [][NextQuiet]_vars

\* A step of the pass in progress: every call of the pass returns or raises
\* (the requests carry timeouts), and the interpreter goes on to the next
\* statement.
PassStep ==
    \/ \E status \in ListOutcomes : ListRequest(status)
    \/ \E ok \in BOOLEAN : WarmUp(ok)
    \/ ListEscapes
    \/ CheckRemote
    \/ \E ok \in BOOLEAN : GetS3Files(ok)
    \/ \E status \in GetOutcomes : DownloadNew(status)
    \/ \E status \in GetOutcomes : CheckExisting(status)
    \/ \E status \in GetOutcomes : Refetch(status)
    \/ \E ok \in BOOLEAN : PutObject(ok)
    \/ PlanDeletes
    \/ \E k \in Keys, ok \in BOOLEAN : DeleteObject(k, ok)
    \/ Finish

\* `if __name__ == "__main__": sync_files()`: the script makes one pass.
RunScript ==
    /\ listResult = "none"
    /\ RunPass(World)

NextScript == RunScript \/ PassStep

\* One run of the script on any upstream and any bucket, the pass run on to
\* its end once entered.
SpecFair == Init /\ [][NextScript]_vars /\ WF_vars(PassStep)

\* ------------------------------------------------------- the Lambda handler
\* handler(event, context) is entered: sync_files() is called.
Invoke(w) ==
    /\ hpc = "idle"
    /\ now < MaxInvocations
    /\ StartPass(w)
    /\ hpc' = "sync"
    /\ now' = now + 1
    /\ json_file' = NoKey
    /\ statusCode' = 0
    /\ apiResult' = "none"
    /\ UNCHANGED syncsOk

\* The pass of this invocation listed the upstream, read the inventory, and
\* every delete_object it called removed its key.
SyncClean ==
    /\ listResult = "ok"
    /\ invResult = "ok"
    /\ \A k \in Keys : nDel[k] = 1 => store[k] = NoObject

\* handler returns {'statusCode': code, ... 'json_file_created': file}.
HandlerReturns(code, file) ==
    /\ hpc' = "idle"
    /\ statusCode' = code
    /\ json_file' = file

\* The statusCode of the return statement that follows fetch_api_data().
StatusFailsWithoutFile(file) == IF file = NoKey THEN 500 ELSE 200

StatusAfterFetch(file) == 200

\* The exception that left sync_files reaches `except Exception` of handler.
SyncEscaped ==
    /\ hpc = "sync"
    /\ pc = "idle"
    /\ listResult = "raised"
    /\ HandlerReturns(500, NoKey)
    /\ syncsOk' = FALSE
    /\ UNCHANGED <<store, passVars, now, apiResult>>

\* What requests.get(api_url) and response.json() of fetch_data_from_api come
\* to: a non-empty document, an empty one (falsy), a status other than 200,
\* a RequestException, or an exception of another class, which is not caught.
ApiOutcomes == {"data", "empty", "status", "fault", "raised"}

\* sync_files() returned; fetch_api_data() calls fetch_data_from_api(api_url)
\* and tests `if data:`.
FetchDataFromApi(outcome) ==
    /\ hpc = "sync"
    /\ pc = "idle"
    /\ listResult # "raised"
    /\ syncsOk' = (syncsOk /\ SyncClean)
    /\ IF outcome = "data" THEN
            /\ hpc' = "upload_json"
            /\ apiResult' = "data"
            /\ UNCHANGED <<json_file, statusCode>>
       ELSE IF outcome = "raised" THEN
            /\ apiResult' = "raised"
            /\ HandlerReturns(500, NoKey)
       ELSE
            /\ apiResult' = "no_data"
            /\ HandlerReturns(StatusAfterFetch(NoKey), NoKey)
    /\ UNCHANGED <<store, passVars, now>>

\* upload_json_to_s3(data, bucket_name, file_name): put_object succeeds and
\* fetch_api_data returns file_name, or raises and it returns None.
UploadJsonToS3(ok) ==
    /\ hpc = "upload_json"
    /\ IF ok THEN
            /\ store' = [store EXCEPT ![PopKey(now)] = Stored(<<1>>)]
            /\ apiResult' = "stored"
            /\ HandlerReturns(StatusAfterFetch(PopKey(now)), PopKey(now))
       ELSE
            /\ apiResult' = "upload_failed"
            /\ HandlerReturns(StatusAfterFetch(NoKey), NoKey)
            /\ UNCHANGED store
    /\ UNCHANGED <<passVars, now, syncsOk>>

\* The bucket as the stack creates it: empty.  The upstream files all carry
\* the same non-empty payload.
InitLambda ==
    /\ Init
    /\ StoreKeys(store) = {}
    /\ \A k \in Names : remoteContent[k] = <<1>>

\* Between two invocations the upstream kept its page or withdrew a link.
NextLambda ==
    \/ \E w \in {World} \cup Withdrawn(World) : Invoke(w)
    \/ PassStep
    \/ SyncEscaped
    \/ \E outcome \in ApiOutcomes : FetchDataFromApi(outcome)
    \/ \E ok \in BOOLEAN : UploadJsonToS3(ok)

\* The deployed pipeline: the handler invoked by the daily schedule.
SpecLambda == InitLambda /\ [][NextLambda]_vars

\* ================================================================ properties
IsRequest(e) == e.ev = "list"
IsRequestOrSleep(e) == e.ev \in {"list", "sleep"}
IsPut(e) == e.ev = "put"
NumRequests(log) == Len(SelectSeq(log, IsRequest))
NumPuts(log) == Len(SelectSeq(log, IsPut))
NoStoreCall == putKeys = {} /\ nDel = Zero

\* C1 (delete-safety): in a pass whose get_remote_files call reported failure,
\* the pass goes no further than testing the result: the inventory is not
\* read, no put_object and no delete_object is issued, and the bucket is what
\* it was when the pass began.
C1_DeleteSafety ==
    listResult = "failed" =>
        /\ pc \in {"listed", "idle"}
        /\ invResult = "none"
        /\ NoStoreCall
        /\ handled = Zero
        /\ store = storeAtStart

\* A pass that ended on a failed listing while the bucket held a key.
C1_Witness ==
    /\ pc = "idle"
    /\ listResult = "failed"
    /\ StoreKeys(store) # {}

\* C2: once list_objects_v2 has raised, the pass is aborted: no download, no
\* put_object and no delete_object follows.
C2_InventoryFailureAborts ==
    invResult = "failed" =>
        /\ pc \notin {"upload", "refetch"}
        /\ NoStoreCall
        /\ handled = Zero
        /\ cur.fetches = 0

\* C3: a successful listing of an empty directory (200, no file link) is
\* reconciled like any other listing: by the end of the pass the inventory has
\* been read (and the keys it holds, all absent upstream, visited for deletion).
C3_EmptyListingReconciled ==
    (pc = "idle" /\ listResult = "ok" /\ Len(remote_files) = 0) =>
        /\ invResult # "none"
        /\ \A k \in DOMAIN s3_files : nDel[k] = 1

\* C4 (single-direction consistency): when a pass ends whose listing
\* succeeded, every key in the bucket is a listed remote name, or a key whose
\* delete_object call was made and failed.
C4_SingleDirection ==
    (pc = "idle" /\ listResult = "ok") =>
        \A k \in StoreKeys(store) : k \in Range(remote_files) \/ nDel[k] > 0

\* C5 (coverage): a pass that read the inventory S after listing R has, when it
\* ends, handled every key of R \cup keys(S) exactly once and no other key.
C5_OneActionPerKey ==
    (pc = "idle" /\ invResult # "none") =>
        \A k \in Names :
            handled[k] = IF k \in Range(remote_files) \cup DOMAIN s3_files THEN 1 ELSE 0

\* C6 (idempotence): in a pass that follows a pass in which nothing failed,
\* the upstream unchanged in between, no put_object and no delete_object is
\* issued and the bucket stays as it was.
C6_SecondRunIsNoOp ==
    (pc # "idle" /\ prevClean) =>
        /\ NoStoreCall
        /\ store = storeAtStart

AllDenied(log) ==
    /\ NumRequests(log) > 0
    /\ \A i \in 1..Len(log) : IsRequest(log[i]) => log[i].v = 403

\* C8 (backoff schedule): a get_remote_files call whose every listing request
\* was answered 403 made exactly 3 requests, slept 5 seconds between the first
\* two and 10 seconds between the last two, did not sleep after the third,
\* and reported failure.
C8_BackoffSchedule ==
    (pc = "listed" /\ AllDenied(listLog)) =>
        /\ SelectSeq(listLog, IsRequestOrSleep) =
              <<Ev("list", 403), Ev("sleep", 5), Ev("list", 403),
                Ev("sleep", 10), Ev("list", 403)>>
        /\ listResult = "failed"

\* C9 as claimed: get_remote_files reports failure only with its budget of
\* listing requests spent, whichever way the requests failed.
C9_EveryFailureRetried ==
    (pc = "listed" /\ listResult = "failed") => NumRequests(listLog) = ListMaxRetries

\* C9 as amended: a listing request that raised is followed by a sleep and then
\* by the next listing request, with no request of the root page in between,
\* unless it was request number max_retries, which ends the call in failure; a
\* status other than 200 and 403 ends the call in failure at once, with no
\* sleep, no warm-up and no further request; the root page is requested only
\* after a 403 and its sleep.
C9_FaultRetriedStatusNot ==
    \A i \in 1..Len(listLog) :
        LET e == listLog[i]
            n == NumRequests(SubSeq(listLog, 1, i))
        IN  /\ (IsRequest(e) /\ e.v = Raised) =>
                 IF n < ListMaxRetries
                 THEN /\ i < Len(listLog)
                      /\ listLog[i + 1].ev = "sleep"
                      /\ i + 2 <= Len(listLog) => IsRequest(listLog[i + 2])
                      /\ i + 1 = Len(listLog) => pc = "list"
                 ELSE i = Len(listLog) /\ listResult = "failed"
            /\ (IsRequest(e) /\ e.v \notin {200, 403, Raised}) =>
                 /\ i = Len(listLog)
                 /\ listResult = "failed"
                 /\ pc \in {"listed", "idle"}
            /\ e.ev = "root" => i > 2 /\ listLog[i - 2] = Ev("list", 403)

\* A call that retried after a network fault and then gave up on a 500.
C9_Witness ==
    /\ pc = "listed"
    /\ listLog = <<Ev("list", Raised), Ev("sleep", 5), Ev("list", 500)>>

\* C10 (upload retry): upload_to_s3 calls put_object at most 3 times, a
\* successful put is its last call and makes it return True, the n-th failed
\* put is followed by a sleep of 5 * n seconds when n < 3, and the third
\* failed put ends the call with False, no sleep, and the loop of sync_files
\* going on.
C10_UploadRetry ==
    /\ NumPuts(upLog) <= 3
    /\ \A i \in 1..Len(upLog) :
        LET e == upLog[i]
            n == NumPuts(SubSeq(upLog, 1, i))
        IN  /\ (IsPut(e) /\ e.v = 1) => i = Len(upLog) /\ upResult = "true"
            /\ (IsPut(e) /\ e.v = 0 /\ n < 3) =>
                 /\ i < Len(upLog)
                 /\ upLog[i + 1] = Ev("sleep", 5 * n)
            /\ (IsPut(e) /\ e.v = 0 /\ n >= 3) =>
                 /\ i = Len(upLog)
                 /\ upResult = "false"
                 /\ pc = "loop"
            /\ e.ev = "sleep" => i > 1 /\ upLog[i - 1] = Ev("put", 0)
    /\ upResult = "true" => Len(upLog) > 0 /\ upLog[Len(upLog)] = Ev("put", 1)
    /\ upResult = "false" => NumPuts(upLog) = 3

\* An upload given up after three failed puts, with a file name still to come
\* in the loop.
C10_Witness ==
    /\ upResult = "false"
    /\ upLog = <<Ev("put", 0), Ev("sleep", 5), Ev("put", 0), Ev("sleep", 10), Ev("put", 0)>>
    /\ pc = "loop"
    /\ idx <= Len(remote_files)

Occurrences(k, files) == Cardinality({i \in 1..Len(files) : files[i] = k})

\* C11 (per-key failure isolation): whatever download, put_object or
\* delete_object failed on the way, a pass that got as far as the remote loop
\* ends only with one loop iteration made for every entry of the remote
\* listing and one delete_object call made for every key due for deletion.
C11_FailureIsolation ==
    (pc = "idle" /\ invResult # "none") =>
        \A k \in Names :
            /\ k \in Range(remote_files) => handled[k] = Occurrences(k, remote_files)
            /\ k \in FilesToDelete(s3_files, remote_files) => nDel[k] = 1

\* A pass that ended after an upload given up for a new key, then a failed
\* delete of one key and a successful delete of another.
C11_Witness ==
    /\ pc = "idle"
    /\ invResult = "ok"
    /\ anyFault
    /\ \E n \in putKeys : store[n] = NoObject
    /\ \E k, j \in FilesToDelete(s3_files, remote_files) :
          /\ k # j
          /\ nDel[k] = 1 /\ store[k] # NoObject
          /\ nDel[j] = 1 /\ store[j] = NoObject

ListerPhase == pc \in {"list", "warmup", "listed"}

\* C12 (phase ordering): while get_remote_files runs or its result is being
\* tested, the inventory is unread and no file has been downloaded, put or
\* deleted; the inventory is read only after a listing that succeeded; and
\* from the first delete_object call of a pass on, the remote loop is
\* exhausted and no download and no put_object follows in that pass.
C12_PhaseOrdering ==
    /\ [](/\ ListerPhase => invResult = "none" /\ cur.fetches = 0 /\ NoStoreCall
          /\ invResult # "none" => listResult = "ok" /\ ~ListerPhase
          /\ nDel # Zero => idx > Len(remote_files) /\ pc \in {"delete", "idle"})
    /\ [][(nDel # Zero /\ pc # "idle") =>
            /\ putKeys' = putKeys
            /\ cur' = cur
            /\ pc' \in {"delete", "idle"}]_vars

\* The delete loop at work after a put_object of the remote loop, with a key
\* still to delete.
C12_Witness ==
    /\ pc = "delete"
    /\ nDel # Zero
    /\ putKeys # {}
    /\ files_to_delete # {}

\* C13 (complete inventory): when list_objects_v2 answered, the mapping
\* get_s3_files returned holds every key the bucket held at that moment (the
\* bucket of the start of the pass: nothing is put or deleted before the
\* inventory is read) with its tag, however many listing pages that takes.
C13_InventoryComplete ==
    invResult = "ok" =>
        s3_files = [k \in StoreKeys(storeAtStart) |-> StripQuotes(storeAtStart[k].etag)]

\* C14 (bounded recovery): whatever the upstream and the store answer, a
\* get_remote_files call makes at most max_retries requests of the directory
\* URL, an upload_to_s3 call makes at most max_retries put_object calls, and
\* a pass that was entered comes to its end.
C14_BoundedRecovery ==
    /\ [](/\ NumRequests(listLog) <= ListMaxRetries
          /\ NumPuts(upLog) <= UploadMaxRetries
          /\ attempt < ListMaxRetries
          /\ upAttempt < UploadMaxRetries)
    /\ <>[](pc = "idle")

\* A pass that came to its end although the listing had to be retried, an
\* upload was given up after its last put_object and a delete failed.
C14_Witness ==
    /\ pc = "idle"
    /\ invResult = "ok"
    /\ anyFault
    /\ \E n \in putKeys : store[n] = NoObject /\ storeAtStart[n] = NoObject
    /\ \E k \in Names : nDel[k] = 1 /\ store[k] # NoObject

\* C15 (reuse of the downloaded bytes): when the check of a key of the
\* inventory downloaded the remote file (200) and its digest differs from the
\* stored tag, the file is fetched once in that loop iteration, whatever its
\* content: upload_to_s3 is entered with no second download.
C15_CheckedBytesReused ==
    (cur.kind = "check" /\ cur.dl = "ok" /\ cur.res = "update") =>
        /\ pc # "refetch"
        /\ cur.fetches = 1

\* C16 (fail-safe toward re-upload): upload_to_s3 is entered for a key of the
\* inventory only when the check failed to download the file or found a digest
\* other than the inventory's tag; a check whose download failed resolves the
\* key as an update and is followed by one more fetch of the file and no
\* third, whose bytes are put if it answered 200, and by no put_object if not.
C16_FailSafeReupload ==
    /\ (cur.kind = "check" /\ (pc = "upload" \/ cur.puts > 0)) =>
            /\ cur.res = "update"
            /\ cur.dl = "failed" \/ Md5(remoteContent[cur.key]) # s3_files[cur.key]
    /\ (cur.kind = "check" /\ cur.dl = "failed") =>
            /\ cur.res = "update"
            /\ IF cur.refetch = "none"
               THEN pc = "refetch" /\ cur.fetches = 1 /\ cur.puts = 0
               ELSE cur.fetches = 2
            /\ cur.refetch = "failed" => cur.done /\ cur.puts = 0
            /\ cur.refetch = "ok" =>
                  IF cur.done
                  THEN /\ cur.puts >= 1
                       /\ upResult = "true" => store[cur.key] = Stored(remoteContent[cur.key])
                  ELSE /\ pc = "upload"
                       /\ file_content = Bytes(remoteContent[cur.key])

\* A key of the inventory whose check could not download the file, fetched
\* once more and put with the bytes of that fetch, the bucket holding the same
\* payload before and after.
C16_Witness ==
    /\ cur.done
    /\ cur.kind = "check"
    /\ cur.dl = "failed"
    /\ cur.refetch = "ok"
    /\ cur.fetches = 2
    /\ upResult = "true"
    /\ storeAtStart[cur.key] = Stored(remoteContent[cur.key])

\* C17 as claimed: a key to be created or updated is given up for the pass
\* after a failed download only when the download has been attempted 3 times.
C17_FailedFetchRetried ==
    (cur.done /\ (cur.dl = "failed" \/ cur.refetch = "failed") /\ cur.puts = 0) =>
        cur.fetches = UploadMaxRetries

\* C17 as amended: the download of a key to be created or updated is not
\* retried: when session.get of a new key does not answer 200 the key is left
\* at once, after that one request and with no put_object; when the fetch that
\* follows a check without usable bytes does not answer 200 the key is left
\* at once, with no put_object; once upload_to_s3 is entered the file is not
\* fetched again, and only put_object is repeated, 3 times at most.
C17_OnlyPutRetried ==
    /\ (cur.kind = "new" /\ cur.dl = "failed") =>
            /\ cur.done /\ cur.fetches = 1 /\ cur.puts = 0
            /\ pc \in {"loop", "idle"} /\ idx > 1 /\ remote_files[idx - 1] = cur.key
    /\ cur.refetch = "failed" =>
            /\ cur.done /\ cur.fetches = 2 /\ cur.puts = 0
            /\ pc \in {"loop", "idle"} /\ idx > 1 /\ remote_files[idx - 1] = cur.key
    /\ cur.kind = "new" => cur.fetches = 1
    /\ cur.fetches <= 2
    /\ cur.puts <= UploadMaxRetries
    /\ cur.puts > 0 => NumPuts(upLog) = cur.puts

\* A new key left after its only download answered another status than 200,
\* with a file name still to come in the loop.
C17_Witness ==
    /\ cur.done
    /\ cur.kind = "new"
    /\ cur.dl = "failed"
    /\ cur.fetches = 1
    /\ pc = "loop"
    /\ idx <= Len(remote_files)

\* C18 (single-attempt delete): in a pass, delete_object is called at most
\* once per key and only for keys of the inventory that the remote listing
\* does not name; when the pass ends it has been called exactly once for each
\* such key; and a key whose delete_object call failed is still in the bucket
\* with the object it held, no second call having been made.
C18_DeleteOnce ==
    /\ \A k \in Names :
          /\ nDel[k] <= 1
          /\ nDel[k] = 1 =>
                /\ k \in DOMAIN s3_files
                /\ k \notin Range(remote_files)
                /\ store[k] \in {NoObject, storeAtStart[k]}
          /\ k \in Range(remote_files) => nDel[k] = 0
    /\ (pc = "idle" /\ invResult # "none") =>
          \A k \in Names :
              nDel[k] = IF k \in DOMAIN s3_files \ Range(remote_files) THEN 1 ELSE 0

\* A pass that ended with a key whose only delete_object call failed still
\* in the bucket, and another key deleted.
C18_Witness ==
    /\ pc = "idle"
    /\ invResult = "ok"
    /\ \E k \in Names : nDel[k] = 1 /\ store[k] # NoObject
    /\ \E j \in Names : nDel[j] = 1 /\ store[j] = NoObject /\ storeAtStart[j] # NoObject
    /\ Len(remote_files) = 2

PopInStore(st) == PopKeys \cap StoreKeys(st)

\* C19 (the sync pass deletes the API files): a pass of the handler whose
\* listing and inventory read succeeded has, when it ends, called
\* delete_object for every population_data key of its inventory; while every
\* invocation so far had such a pass and no failed delete, the inventory held
\* every population_data key of the bucket, and once the handler has returned
\* the bucket holds no population_data key but the one this invocation wrote.
C19_ApiFilesDeletedBySync ==
    /\ (now >= 1 /\ pc = "idle" /\ listResult = "ok" /\ invResult = "ok") =>
          /\ \A p \in PopKeys \cap DOMAIN s3_files : nDel[p] = 1
          /\ syncsOk => PopInStore(storeAtStart) \subseteq DOMAIN s3_files
    /\ (hpc = "idle" /\ syncsOk) =>
          /\ PopInStore(store) \subseteq {json_file}
          /\ json_file # NoKey => json_file = PopKey(now)

\* The second invocation returned: its pass deleted the file the first one
\* wrote, and the bucket holds the file of the second alone.
C19_Witness ==
    /\ hpc = "idle"
    /\ now = 2
    /\ syncsOk
    /\ storeAtStart[PopKey(1)] # NoObject
    /\ nDel[PopKey(1)] = 1
    /\ PopInStore(store) = {PopKey(2)}
    /\ json_file = PopKey(2)

\* C20 (failure masking): once the handler has returned, statusCode is 500
\* exactly when an exception left sync_files or fetch_api_data; whenever
\* sync_files returned, with the listing failed, the inventory unread or
\* unreadable, or uploads and deletes failed, fetch_api_data was run after it;
\* and whenever fetch_api_data returned, statusCode is 200, with
\* json_file_created None when the API gave no data or the JSON upload failed
\* and the key just written otherwise.
C20_FailureMasking ==
    (hpc = "idle" /\ now >= 1) =>
        /\ statusCode \in {200, 500}
        /\ statusCode = 500 <=> (listResult = "raised" \/ apiResult = "raised")
        /\ listResult # "raised" => apiResult # "none"
        /\ listResult = "raised" => apiResult = "none"
        /\ apiResult \in {"no_data", "upload_failed"} =>
              statusCode = 200 /\ json_file = NoKey
        /\ apiResult = "stored" =>
              /\ statusCode = 200
              /\ json_file = PopKey(now)
              /\ store[PopKey(now)] # NoObject
        /\ statusCode = 500 => json_file = NoKey

\* The handler returned 200 with no file created after a pass whose listing
\* failed and a JSON upload that failed.
C20_Witness ==
    /\ hpc = "idle"
    /\ now >= 1
    /\ statusCode = 200
    /\ listResult = "failed"
    /\ apiResult = "upload_failed"
    /\ json_file = NoKey

====
